---- MODULE Spec2Model ----
(***************************************************************************)
(* Model of the CFS bypass client core (src/client/bypass/include/client.h):*)
(* path cleaning and classification (get_clean_path, cat_path,              *)
(* get_cfs_path), error translation (cfs_errno, cfs_errno_ssize_t), the     *)
(* descriptor registry (fd_in_cfs, get_cfs_fd, dup_fd) and the hybrid read  *)
(* (cfs_pread_sock).                                                        *)
(*                                                                          *)
(* C strings are sequences of one-character strings; reading the byte at    *)
(* index strlen(s) yields the terminator NUL.  A NULL pointer is the value  *)
(* NULL, which is no character sequence.                                    *)
(***************************************************************************)
EXTENDS Integers, Sequences, FiniteSets, TLC

\* ------------------------------------------------------------------------
\* Bounds of the explored input space
\* ------------------------------------------------------------------------
MaxCleanLen == 7
MaxPathLen == 5
MaxIgnoreLen == 4
MaxCount == 3
MaxErrno == 5
MaxStatus == 4
MaxHandle == 1
MaxDupRef == 3
MaxAllocPathLen == 4
MaxAllocIgnoreLen == 1
NumThreads == 2

\* ------------------------------------------------------------------------
\* C string helpers
\* ------------------------------------------------------------------------
NUL == "NUL"
NULL == <<"NULL">>
PathChars == {"/", ".", "a"}
IgnoreChars == {"a", ","}

Strings(chars, n) == UNION {[1..k -> chars] : k \in 0..n}

Min(a, b) == IF a < b THEN a ELSE b

\* s[i] with C's zero-based index; the byte after the last one is NUL
At(s, i) == IF i < Len(s) THEN s[i + 1] ELSE NUL

\* the string starting at pointer s + k (k <= strlen(s))
Offset(s, k) == SubSeq(s, k + 1, Len(s))

\* strncmp(a, b, n) == 0
strncmp_eq(a, b, n) ==
    \A i \in 0..(n - 1) : i <= Min(Len(a), Len(b)) => At(a, i) = At(b, i)

VARIABLES
    \* path classifier: inputs, process position state and results
    pathname, mount_point, ignore_path, cwd, in_cfs,
    path_pc, clean_out, clean_again, cfs_path,
    \* the allocation of the call that returns NULL ("none" when all succeed),
    \* named after the pointer it is assigned to
    alloc_fail,
    \* threads inside get_cfs_path: each thread's position and locals, and
    \* the position strtok keeps between calls (one for the whole process)
    tok, strtok_save,
    \* hybrid read: the call's locals, the caller's buffer, the collaborator
    \* calls made so far, the fast-path total and the returned value
    count, req, req_count, req_i, read, re, buf, read_pc, log, fast_total, ret,
    \* error translation: the thread's errno, its value before the last call,
    \* the last call made, its argument and its return value
    errno, errno_before, err_fn, err_in, err_ret,
    \* descriptor registry: g_client_info.open_files (handle id -> file_t),
    \* g_client_info.dup_fds (descriptor -> handle id), the handles whose
    \* original descriptor the application still holds, dup_fd's last result,
    \* the last registry call and its arguments
    open_files, dup_fds, direct_live, dup_fd_ret, fd_call,
    \* application threads inside fd_in_cfs, get_cfs_fd or dup_fd: each
    \* thread's position, arguments and locals, and the threads that hold
    \* g_client_info.open_files_lock for reading
    th, lock_readers

pathVars == <<pathname, mount_point, ignore_path, cwd, in_cfs,
              path_pc, clean_out, clean_again, cfs_path, alloc_fail,
              tok, strtok_save>>

readVars == <<count, req, req_count, req_i, read, re, buf, read_pc, log,
              fast_total, ret>>

errVars == <<errno, errno_before, err_fn, err_in, err_ret>>

fdVars == <<open_files, dup_fds, direct_live, dup_fd_ret, fd_call>>

thVars == <<th, lock_readers>>

vars == <<pathVars, readVars, errVars, fdVars, thVars>>

\* ------------------------------------------------------------------------
\* get_clean_path (client.h:436-504)
\* ------------------------------------------------------------------------
\* the out buffer is kept as the sequence out[0..w-1]; w == Len(out).
\* Bytes at and beyond w are never read before being rewritten.

\* ".." element that can backtrack: w--; while(w > dotdot && out[w] != '/') w--;
RECURSIVE BacktrackLoop(_, _, _)
BacktrackLoop(out, w, dotdot) ==
    IF w > dotdot /\ At(out, w) # "/"
    THEN BacktrackLoop(out, w - 1, dotdot)
    ELSE w

\* Backtrack stopping one byte late, so the '/' before the element stays
BacktrackKeepsSlash(out, dotdot) ==
    SubSeq(out, 1, BacktrackLoop(out, Len(out) - 1, dotdot) + 1)

Backtrack(out, dotdot) ==
    SubSeq(out, 1, BacktrackLoop(out, Len(out) - 1, dotdot))

\* NeedSlash without the test of w
NeedSlashAlways(rooted, w) == TRUE

\* if(rooted && w != 1 || !rooted && w != 0)
NeedSlash(rooted, w) == (rooted /\ w # 1) \/ (~rooted /\ w # 0)

\* for(; r < n && path[r] != '/'; r++) out[w++] = path[r];
RECURSIVE ElementEnd(_, _)
ElementEnd(path, r) ==
    IF r < Len(path) /\ At(path, r) # "/" THEN ElementEnd(path, r + 1) ELSE r

IsDot(path, r) ==
    At(path, r) = "." /\ (r + 1 = Len(path) \/ At(path, r + 1) = "/")

IsDotDot(path, r) ==
    /\ At(path, r) = "."
    /\ At(path, r + 1) = "."
    /\ (r + 2 = Len(path) \/ At(path, r + 2) = "/")

\* while(r < n) { ... }
RECURSIVE CleanLoop(_, _, _, _, _)
CleanLoop(path, rooted, r, dotdot, out) ==
    IF r >= Len(path) THEN out
    ELSE IF At(path, r) = "/" THEN
        CleanLoop(path, rooted, r + 1, dotdot, out)
    ELSE IF IsDot(path, r) THEN
        CleanLoop(path, rooted, r + 1, dotdot, out)
    ELSE IF IsDotDot(path, r) THEN
        IF Len(out) > dotdot THEN
            CleanLoop(path, rooted, r + 2, dotdot, Backtrack(out, dotdot))
        ELSE IF ~rooted THEN
            LET o == (IF Len(out) > 0 THEN out \o <<"/">> ELSE out) \o <<".", ".">>
            IN  CleanLoop(path, rooted, r + 2, Len(o), o)
        ELSE
            CleanLoop(path, rooted, r + 2, dotdot, out)
    ELSE
        LET o == IF NeedSlash(rooted, Len(out)) THEN out \o <<"/">> ELSE out
            e == ElementEnd(path, r)
        IN  CleanLoop(path, rooted, e, dotdot, o \o SubSeq(path, r + 1, e))

get_clean_path(path) ==
    IF path = NULL THEN NULL
    ELSE IF alloc_fail = "out" THEN NULL
    ELSE LET rooted == At(path, 0) = "/"
             out == IF rooted
                    THEN CleanLoop(path, TRUE, 1, 1, <<"/">>)
                    ELSE CleanLoop(path, FALSE, 0, 0, <<>>)
         IN  IF Len(out) = 0 THEN <<".">> ELSE out

\* ------------------------------------------------------------------------
\* cat_path (client.h:510-526)
\* ------------------------------------------------------------------------
cat_path(dir, path) ==
    IF dir = NULL \/ path = NULL THEN NULL
    ELSE IF alloc_fail = "path" THEN NULL
    ELSE dir \o <<"/">> \o path

\* ------------------------------------------------------------------------
\* get_cfs_path (client.h:534-607)
\* ------------------------------------------------------------------------
\* the tokens strtok(ignore_path, ",") / strtok(NULL, ",") hand out in turn:
\* leading delimiters are skipped, a token runs to the next delimiter.
RECURSIVE SkipDelims(_, _)
SkipDelims(s, i) ==
    IF i < Len(s) /\ At(s, i) = "," THEN SkipDelims(s, i + 1) ELSE i

RECURSIVE TokenEnd(_, _)
TokenEnd(s, i) ==
    IF i < Len(s) /\ At(s, i) # "," THEN TokenEnd(s, i + 1) ELSE i

RECURSIVE strtok(_, _)
strtok(s, i) ==
    LET b == SkipDelims(s, i)
        e == TokenEnd(s, b)
    IN  IF b >= Len(s) THEN <<>>
        ELSE <<SubSeq(s, b + 1, e)>> \o strtok(s, e + 1)

\* the condition of the if inside the token loop (client.h:573-574)
TokenMatches(real_path, len, token) ==
    /\ At(real_path, len) = "/"
    /\ strncmp_eq(Offset(real_path, len + 1), token, Len(token))
    /\ At(real_path, len + 1 + Len(token)) \in {NUL, "/"}

\* while(token != NULL) { if(match) { is_cfs = false; break; } is_cfs = true; ... }
RECURSIVE IgnoreLoop(_, _, _, _, _)
IgnoreLoop(real_path, len, tokens, k, is_cfs) ==
    IF k > Len(tokens) THEN is_cfs
    ELSE IF TokenMatches(real_path, len, tokens[k]) THEN FALSE
    ELSE IgnoreLoop(real_path, len, tokens, k + 1, TRUE)

\* client.h:559-584: the value of is_cfs after the prefix and ignore tests
IsCfs(real_path) ==
    LET len == Len(mount_point)
    IN  IF strncmp_eq(real_path, mount_point, len)
        THEN IF Len(ignore_path) > 0
             THEN IgnoreLoop(real_path, len, strtok(ignore_path, 0), 1, FALSE)
             ELSE At(real_path, len) \in {NUL, "/"}
        ELSE FALSE

\* client.h:592-606: strip the mount point part
StripMount(real_path) ==
    LET len_result == Len(real_path) - Len(mount_point)
    IN  IF alloc_fail = "result" THEN NULL
        ELSE IF len_result > 0 THEN Offset(real_path, Len(mount_point))
        ELSE <<"/">>

get_cfs_path(path) ==
    IF path = NULL \/ (At(path, 0) # "/" /\ ~in_cfs) THEN NULL
    ELSE LET real_path == get_clean_path(path)
         IN  IF real_path = NULL THEN NULL
             ELSE IF At(path, 0) # "/" /\ in_cfs THEN cat_path(cwd, real_path)
             ELSE IF alloc_fail = "ignore_path" THEN NULL
             ELSE IF ~IsCfs(real_path) THEN NULL
             ELSE StripMount(real_path)

\* ------------------------------------------------------------------------
\* Idle values of the hybrid read (for specifications of other parts)
\* ------------------------------------------------------------------------
ReadIdle ==
    /\ count = 0
    /\ req = <<>>
    /\ req_count = 0
    /\ req_i = 0
    /\ read = 0
    /\ re = 0
    /\ buf = <<>>
    /\ read_pc = "idle"
    /\ log = <<>>
    /\ fast_total = 0
    /\ ret = 0

\* ------------------------------------------------------------------------
\* Idle values of the error translation and of the descriptor registry
\* ------------------------------------------------------------------------
ErrIdle ==
    /\ errno = 0
    /\ errno_before = 0
    /\ err_fn = "none"
    /\ err_in = 0
    /\ err_ret = 0

\* fd_call when the last registry call was not dup_fd
NoCall == [op |-> "none", oldfd |-> -1, newfd |-> -1]

\* the application threads, and a thread that is in none of the functions
Threads == 1..NumThreads
IdleThread ==
    [pc |-> "idle", fn |-> "none", fd |-> -1, oldfd |-> -1, newfd |-> -1,
     dup_ref |-> 0, ret |-> 0]

ThreadsIdle ==
    /\ th = [t \in Threads |-> IdleThread]
    /\ lock_readers = {}

FdIdle ==
    /\ open_files = <<>>
    /\ dup_fds = <<>>
    /\ direct_live = {}
    /\ dup_fd_ret = 0
    /\ fd_call = NoCall
    /\ ThreadsIdle

\* ------------------------------------------------------------------------
\* Idle values of the path classifier (for specifications of other parts)
\* ------------------------------------------------------------------------
\* a thread outside get_cfs_path; strtok's saved position before any call
\* (buf is the thread whose copy of the ignore list it points into)
IdleTok ==
    [pc |-> "idle", pathname |-> <<>>, real_path |-> <<>>, token |-> NULL,
     token_buf |-> 0, is_cfs |-> FALSE, ret |-> NULL]

NoSave == [buf |-> 0, pos |-> 0]

TokIdle ==
    /\ tok = [t \in Threads |-> IdleTok]
    /\ strtok_save = NoSave

PathIdle ==
    /\ pathname = <<>>
    /\ mount_point = <<"/", "a">>
    /\ ignore_path = <<>>
    /\ cwd = <<"/">>
    /\ in_cfs = FALSE
    /\ path_pc = "idle"
    /\ clean_out = NULL
    /\ clean_again = NULL
    /\ cfs_path = NULL
    /\ alloc_fail = "none"
    /\ TokIdle

\* ------------------------------------------------------------------------
\* SpecClean: get_clean_path applied to every bounded path, then re-applied
\* ------------------------------------------------------------------------
InitClean ==
    /\ pathname \in Strings(PathChars, MaxCleanLen)
    /\ mount_point = <<"/", "a">>
    /\ ignore_path = <<>>
    /\ cwd = <<"/">>
    /\ in_cfs = FALSE
    /\ path_pc = "start"
    /\ clean_out = NULL
    /\ clean_again = NULL
    /\ cfs_path = NULL
    /\ alloc_fail = "none"
    /\ TokIdle
    /\ ReadIdle
    /\ ErrIdle
    /\ FdIdle

CleanCall ==
    /\ path_pc = "start"
    /\ clean_out' = get_clean_path(pathname)
    /\ path_pc' = "cleaned"
    /\ UNCHANGED <<pathname, mount_point, ignore_path, cwd, in_cfs,
                   clean_again, cfs_path, alloc_fail, tok, strtok_save>>
    /\ UNCHANGED <<readVars, errVars, fdVars, thVars>>

CleanAgain ==
    /\ path_pc = "cleaned"
    /\ clean_again' = get_clean_path(clean_out)
    /\ path_pc' = "recleaned"
    /\ UNCHANGED <<pathname, mount_point, ignore_path, cwd, in_cfs,
                   clean_out, cfs_path, alloc_fail, tok, strtok_save>>
    /\ UNCHANGED <<readVars, errVars, fdVars, thVars>>

NextClean == CleanCall \/ CleanAgain

SpecClean == InitClean /\ [][NextClean]_vars

\* C4: cleaning twice gives the same string as cleaning once, and a cleaned
\* path ends in '/' only when it is exactly "/".
CleanIdempotentNoTrailingSlash ==
    /\ path_pc \in {"cleaned", "recleaned"} =>
          (clean_out[Len(clean_out)] = "/" => clean_out = <<"/">>)
    /\ path_pc = "recleaned" => clean_again = clean_out

CleanReducedWitness ==
    /\ path_pc = "recleaned"
    /\ pathname = <<"a", "/", "/", ".", ".", "/", ".">>
    /\ clean_out = <<".">>

\* the index of the first '/' of s at or after i (Len(s) when there is none)
RECURSIVE NextSlash(_, _)
NextSlash(s, i) ==
    IF i < Len(s) /\ At(s, i) # "/" THEN NextSlash(s, i + 1) ELSE i

\* the segments of s between its '/' characters, empty ones included
RECURSIVE Segments(_)
Segments(s) ==
    LET e == NextSlash(s, 0)
    IN  IF e >= Len(s) THEN <<s>>
        ELSE <<SubSeq(s, 1, e)>> \o Segments(Offset(s, e + 1))

\* the segments of a cleaned path, without the leading '/' of a rooted one
CleanSegments(c) ==
    IF c = <<"/">> THEN <<>>
    ELSE IF At(c, 0) = "/" THEN Segments(Offset(c, 1))
    ELSE Segments(c)

\* C24: the result of get_clean_path has no empty segment and no "."
\* segment, unless it is "." as a whole; for a rooted input it starts with
\* '/' and has no ".." segment; for a non-rooted input it does not start
\* with '/' and ".." segments form a leading run.
CleanIsNormalForm ==
    path_pc \in {"cleaned", "recleaned"} =>
        LET segs == CleanSegments(clean_out)
        IN  /\ clean_out # <<>>
            /\ clean_out # <<".">> =>
                  \A k \in 1..Len(segs) : segs[k] # <<>> /\ segs[k] # <<".">>
            /\ IF At(pathname, 0) = "/"
               THEN /\ At(clean_out, 0) = "/"
                    /\ \A k \in 1..Len(segs) : segs[k] # <<".", ".">>
               ELSE /\ At(clean_out, 0) # "/"
                    /\ \A k \in 1..Len(segs) :
                          segs[k] = <<".", ".">>
                              => \A j \in 1..k : segs[j] = <<".", ".">>

LeadingDotDotKeptWitness ==
    /\ path_pc = "cleaned"
    /\ pathname = <<"a", "/", ".", ".", "/", ".", ".">>
    /\ clean_out = <<".", ".">>

\* C25: the terminator is stored at an index w of the n + 1 byte buffer with
\* w <= n, n the length of the input.
CleanOutputFitsBuffer ==
    path_pc \in {"cleaned", "recleaned"} => Len(clean_out) <= Len(pathname)
\* ------------------------------------------------------------------------
\* SpecPath: get_cfs_path applied to every bounded path and configuration
\* ------------------------------------------------------------------------
\* mount_point is absolute and clean, its trailing '/' stripped at start-up;
\* cwd is the working directory inside CFS, without the mount point part.
MountPoints == {<<"/", "a">>}
Cwds == {<<"/">>, <<"/", "a">>}

InitPath ==
    /\ pathname \in Strings(PathChars, MaxPathLen)
    /\ mount_point \in MountPoints
    /\ ignore_path \in Strings(IgnoreChars, MaxIgnoreLen)
    /\ cwd \in Cwds
    /\ in_cfs \in BOOLEAN
    /\ path_pc = "start"
    /\ clean_out = NULL
    /\ clean_again = NULL
    /\ cfs_path = NULL
    /\ alloc_fail = "none"
    /\ TokIdle
    /\ ReadIdle
    /\ ErrIdle
    /\ FdIdle

Classify ==
    /\ path_pc = "start"
    /\ cfs_path' = get_cfs_path(pathname)
    /\ path_pc' = "classified"
    /\ UNCHANGED <<pathname, mount_point, ignore_path, cwd, in_cfs,
                   clean_out, clean_again, alloc_fail,
                   tok, strtok_save>>
    /\ UNCHANGED <<readVars, errVars, fdVars, thVars>>

NextPath == Classify

SpecPath == InitPath /\ [][NextPath]_vars

IsAbsolute(path) == At(path, 0) = "/"

\* c equals mount_point or is mount_point followed by '/'
UnderMount(c) ==
    /\ Len(c) >= Len(mount_point)
    /\ SubSeq(c, 1, Len(mount_point)) = mount_point
    /\ (Len(c) > Len(mount_point) => c[Len(mount_point) + 1] = "/")

\* the first segment of c after mount_point + "/" (empty when there is none)
FirstSegment(c) ==
    LET rest == SubSeq(c, Len(mount_point) + 2, Len(c))
        ends == {k \in 1..Len(rest) : rest[k] = "/"}
    IN  IF ends = {} THEN rest
        ELSE SubSeq(rest, 1, (CHOOSE k \in ends : \A j \in ends : k <= j) - 1)

\* the non-empty ','-separated entries of the ignore list
IsEntry(list, i, j) ==
    /\ i <= j
    /\ (i = 1 \/ list[i - 1] = ",")
    /\ (j = Len(list) \/ list[j + 1] = ",")
    /\ \A k \in i..j : list[k] # ","

Entries(list) ==
    {SubSeq(list, x[1], x[2]) :
        x \in {y \in (1..Len(list)) \X (1..Len(list)) : IsEntry(list, y[1], y[2])}}

\* C1: an absolute path classifies as remote only if its cleaned form is
\* mount_point or mount_point followed by '/', whatever the ignore list is.
RemoteOnlyUnderMount ==
    (path_pc = "classified" /\ IsAbsolute(pathname) /\ cfs_path # NULL)
        => UnderMount(get_clean_path(pathname))

\* C2: an absolute path at or under the mount point classifies as local
\* exactly when its first segment after the mount point is an ignore entry.
UnderMountRemoteUnlessIgnored ==
    (path_pc = "classified" /\ IsAbsolute(pathname)
        /\ UnderMount(get_clean_path(pathname)))
        => (cfs_path = NULL <=>
              FirstSegment(get_clean_path(pathname)) \in Entries(ignore_path))

\* C3: inside remote scope a relative path classifies as its absolute form
\* does (the working directory joined with the path, under the mount point
\* or as the bare join).
RelativeClassifiesAsAbsolute ==
    (path_pc = "classified" /\ ~IsAbsolute(pathname) /\ in_cfs)
        => \/ cfs_path = get_cfs_path(mount_point \o cat_path(cwd, pathname))
           \/ cfs_path = get_cfs_path(cat_path(cwd, pathname))

\* C17: a Remote result r of an absolute path is the cleaned path without
\* the mount point: mount_point followed by r is the cleaned path, r is "/"
\* when the cleaned path is mount_point, and r begins with '/'.
RemoteResultIsStrippedCleanPath ==
    (path_pc = "classified" /\ IsAbsolute(pathname) /\ cfs_path # NULL)
        => /\ IF get_clean_path(pathname) = mount_point
              THEN cfs_path = <<"/">>
              ELSE mount_point \o cfs_path = get_clean_path(pathname)
           /\ At(cfs_path, 0) = "/"

\* ------------------------------------------------------------------------
\* SpecPathAlloc: get_cfs_path when one of its allocations fails
\* ------------------------------------------------------------------------
\* malloc of out (client.h:449), malloc of path (client.h:516), strdup into
\* ignore_path (client.h:562), malloc of result (client.h:594)
AllocSites == {"none", "out", "path", "ignore_path", "result"}

InitPathAlloc ==
    /\ pathname \in Strings(PathChars, MaxAllocPathLen)
    /\ mount_point \in MountPoints
    /\ ignore_path \in Strings(IgnoreChars, MaxAllocIgnoreLen)
    /\ cwd \in Cwds
    /\ in_cfs \in BOOLEAN
    /\ path_pc = "start"
    /\ clean_out = NULL
    /\ clean_again = NULL
    /\ cfs_path = NULL
    /\ alloc_fail \in AllocSites
    /\ TokIdle
    /\ ReadIdle
    /\ ErrIdle
    /\ FdIdle

SpecPathAlloc == InitPathAlloc /\ [][NextPath]_vars

\* the call of get_cfs_path(pathname) executes the allocation that fails
AllocFailureReached ==
    /\ ~(~IsAbsolute(pathname) /\ ~in_cfs)
    /\ \/ alloc_fail = "out"
       \/ alloc_fail = "path" /\ ~IsAbsolute(pathname)
       \/ alloc_fail = "ignore_path" /\ IsAbsolute(pathname)
       \/ /\ alloc_fail = "result"
          /\ IsAbsolute(pathname)
          /\ IsCfs(get_clean_path(pathname))

\* C15: a call in which an allocation failed does not return NULL, the value
\* returned for a Local path.
AllocFailureDistinctFromLocal ==
    (path_pc = "classified" /\ AllocFailureReached) => cfs_path # NULL
\* ------------------------------------------------------------------------
\* cfs_pread_sock (client.h:707-758)
\* ------------------------------------------------------------------------
max_count == 3

\* cfs_read_req_t, reduced to the fields cfs_pread_sock branches on
PartitionIds == {0, 1}
ReadReq(cnt) == [partition_id : PartitionIds, size : 0..cnt]

RECURSIVE SumSizes(_)
SumSizes(rq) == IF rq = <<>> THEN 0 ELSE rq[1].size + SumSizes(Tail(rq))

\* what cfs_read_requests may fill in for a read of cnt bytes: at most
\* max_count descriptors, lying inside the requested range
ReqLists(cnt) ==
    {rq \in UNION {[1..k -> ReadReq(cnt)] : k \in 0..max_count} :
        SumSizes(rq) <= cnt}

\* what cfs_pread may return for a read of cnt bytes: -errno or a length
FallbackResults(cnt) == {-5} \cup 0..cnt

\* req[k] with C's zero-based index
Req(k) == req[k + 1]

Event(op, idx, val) == [op |-> op, idx |-> idx, val |-> val]

\* b with the len cells from offset from on set to v
Fill(b, from, len, v) ==
    [k \in 1..Len(b) |-> IF from < k /\ k <= from + len THEN v ELSE b[k]]

unchangedPath == UNCHANGED <<pathVars, errVars, fdVars, thVars>>

\* int req_count = cfs_read_requests(...); ssize_t read = 0; i = 0
ReadRequests ==
    /\ read_pc = "start"
    /\ \/ \E rq \in ReqLists(count) :
            /\ req' = rq
            /\ req_count' = Len(rq)
       \/ /\ req' = <<>>
          /\ req_count' = -1
    /\ log' = Append(log, Event("cfs_read_requests", 0, req_count'))
    /\ read' = 0
    /\ req_i' = 0
    /\ read_pc' = "loop"
    /\ UNCHANGED <<count, re, buf, fast_total, ret>>
    /\ unchangedPath

\* i < req_count is false
LoopEnd ==
    /\ read_pc = "loop"
    /\ ~(req_i < req_count)
    /\ read_pc' = "after"
    /\ UNCHANGED <<count, req, req_count, req_i, read, re, buf, log,
                   fast_total, ret>>
    /\ unchangedPath

\* if(req[i].size == 0) break;
SizeZero ==
    /\ read_pc = "loop"
    /\ req_i < req_count
    /\ Req(req_i).size = 0
    /\ read_pc' = "after"
    /\ UNCHANGED <<count, req, req_count, req_i, read, re, buf, log,
                   fast_total, ret>>
    /\ unchangedPath

\* Hole without read += req[i].size
HoleWithoutAdvance ==
    /\ read_pc = "loop"
    /\ req_i < req_count
    /\ Req(req_i).size # 0
    /\ Req(req_i).partition_id = 0
    /\ buf' = Fill(buf, read, Req(req_i).size, "z")
    /\ req_i' = req_i + 1
    /\ UNCHANGED <<count, req, req_count, read, re, read_pc, log, fast_total, ret>>
    /\ unchangedPath

\* if(req[i].partition_id == 0) { memset(buf + read, 0, size); read += size; continue; }
Hole ==
    /\ read_pc = "loop"
    /\ req_i < req_count
    /\ Req(req_i).size # 0
    /\ Req(req_i).partition_id = 0
    /\ buf' = Fill(buf, read, Req(req_i).size, "z")
    /\ read' = read + Req(req_i).size
    /\ req_i' = req_i + 1
    /\ UNCHANGED <<count, req, req_count, re, read_pc, log, fast_total, ret>>
    /\ unchangedPath

\* packet_t *p = new_read_packet(...); if(p == NULL) break;
NewReadPacket ==
    /\ read_pc = "loop"
    /\ req_i < req_count
    /\ Req(req_i).size # 0
    /\ Req(req_i).partition_id # 0
    /\ \E ok \in BOOLEAN :
        /\ log' = Append(log, Event("new_read_packet", req_i, IF ok THEN 1 ELSE 0))
        /\ read_pc' = IF ok THEN "get_conn" ELSE "after"
    /\ UNCHANGED <<count, req, req_count, req_i, read, re, buf, fast_total, ret>>
    /\ unchangedPath

\* GetConn returning sock_fd to the caller when get_conn fails
GetConnSurfacesError ==
    /\ read_pc = "get_conn"
    /\ \E ok \in BOOLEAN :
        /\ log' = Append(log, Event("get_conn", req_i, IF ok THEN 0 ELSE -1))
        /\ read_pc' = IF ok THEN "write_sock" ELSE "return"
        /\ read' = IF ok THEN read ELSE -1
    /\ UNCHANGED <<count, req, req_count, req_i, re, buf, fast_total, ret>>
    /\ unchangedPath

\* int sock_fd = get_conn(...); if(sock_fd < 0) { free(p); break; }
GetConn ==
    /\ read_pc = "get_conn"
    /\ \E ok \in BOOLEAN :
        /\ log' = Append(log, Event("get_conn", req_i, IF ok THEN 0 ELSE -1))
        /\ read_pc' = IF ok THEN "write_sock" ELSE "after"
    /\ UNCHANGED <<count, req, req_count, req_i, read, re, buf, fast_total, ret>>
    /\ unchangedPath

\* WriteSock without close(sock_fd) when write_sock fails
WriteSockLeaksConn ==
    /\ read_pc = "write_sock"
    /\ \E r \in {-1, 0} :
        /\ re' = r
        /\ log' = Append(log, Event("write_sock", req_i, r))
        /\ read_pc' = IF r < 0 THEN "after" ELSE "get_read_reply"
    /\ UNCHANGED <<count, req, req_count, req_i, read, buf, fast_total, ret>>
    /\ unchangedPath

\* ssize_t re = write_sock(sock_fd, p); if(re < 0) { free(p); close(sock_fd); break; }
WriteSock ==
    /\ read_pc = "write_sock"
    /\ \E r \in {-1, 0} :
        /\ re' = r
        /\ log' = IF r < 0
                  THEN log \o <<Event("write_sock", req_i, r), Event("close", req_i, 0)>>
                  ELSE Append(log, Event("write_sock", req_i, r))
        /\ read_pc' = IF r < 0 THEN "after" ELSE "get_read_reply"
    /\ UNCHANGED <<count, req, req_count, req_i, read, buf, fast_total, ret>>
    /\ unchangedPath

\* re = get_read_reply(sock_fd, p); free(p); if(re < 0) { close(sock_fd); break; }
\* a reply of re bytes lands in buf + read; a failed reply leaves the
\* descriptor's region indeterminate
GetReadReply ==
    /\ read_pc = "get_read_reply"
    /\ \E r \in {-1} \cup 0..Req(req_i).size :
        /\ re' = r
        /\ log' = IF r < 0
                  THEN log \o <<Event("get_read_reply", req_i, r), Event("close", req_i, 0)>>
                  ELSE Append(log, Event("get_read_reply", req_i, r))
        /\ buf' = IF r < 0 THEN Fill(buf, read, Req(req_i).size, "x")
                  ELSE Fill(buf, read, r, "d")
        /\ read_pc' = IF r < 0 THEN "after" ELSE "put_conn"
    /\ UNCHANGED <<count, req, req_count, req_i, read, fast_total, ret>>
    /\ unchangedPath

\* PutConn without the break on a short reply
PutConnContinuesAfterShort ==
    /\ read_pc = "put_conn"
    /\ log' = Append(log, Event("put_conn", req_i, 0))
    /\ read' = read + re
    /\ read_pc' = "loop"
    /\ req_i' = req_i + 1
    /\ UNCHANGED <<count, req, req_count, re, buf, fast_total, ret>>
    /\ unchangedPath

\* PutConn with read = re in place of read += re
PutConnOverwritesTotal ==
    /\ read_pc = "put_conn"
    /\ log' = Append(log, Event("put_conn", req_i, 0))
    /\ read' = re
    /\ IF re # Req(req_i).size
       THEN read_pc' = "after" /\ req_i' = req_i
       ELSE read_pc' = "loop" /\ req_i' = req_i + 1
    /\ UNCHANGED <<count, req, req_count, re, buf, fast_total, ret>>
    /\ unchangedPath

\* put_conn(...); read += re; if(re != req[i].size) break;
PutConn ==
    /\ read_pc = "put_conn"
    /\ log' = Append(log, Event("put_conn", req_i, 0))
    /\ read' = read + re
    /\ IF re # Req(req_i).size
       THEN read_pc' = "after" /\ req_i' = req_i
       ELSE read_pc' = "loop" /\ req_i' = req_i + 1
    /\ UNCHANGED <<count, req, req_count, re, buf, fast_total, ret>>
    /\ unchangedPath

\* Fallback with read <= count in place of read < count
FallbackWhenNotAbove ==
    /\ read_pc = "after"
    /\ read <= count
    /\ \E fb \in FallbackResults(count) :
        /\ read' = fb
        /\ log' = Append(log, Event("cfs_pread", 0, fb))
        /\ buf' = IF fb > 0 THEN Fill(buf, 0, fb, "f") ELSE buf
    /\ fast_total' = read
    /\ read_pc' = "return"
    /\ UNCHANGED <<count, req, req_count, req_i, re, ret>>
    /\ unchangedPath

\* Fallback with read += cfs_pread(...) in place of read = cfs_pread(...)
FallbackAddsPartial ==
    /\ read_pc = "after"
    /\ read < count
    /\ \E fb \in FallbackResults(count) :
        /\ read' = read + fb
        /\ log' = Append(log, Event("cfs_pread", 0, fb))
        /\ buf' = IF fb > 0 THEN Fill(buf, 0, fb, "f") ELSE buf
    /\ fast_total' = read
    /\ read_pc' = "return"
    /\ UNCHANGED <<count, req, req_count, req_i, re, ret>>
    /\ unchangedPath

\* if(read < count) { read = cfs_pread(id, fd, buf, count, offset); }
Fallback ==
    /\ read_pc = "after"
    /\ read < count
    /\ \E fb \in FallbackResults(count) :
        /\ read' = fb
        /\ log' = Append(log, Event("cfs_pread", 0, fb))
        /\ buf' = IF fb > 0 THEN Fill(buf, 0, fb, "f") ELSE buf
    /\ fast_total' = read
    /\ read_pc' = "return"
    /\ UNCHANGED <<count, req, req_count, req_i, re, ret>>
    /\ unchangedPath

SkipFallback ==
    /\ read_pc = "after"
    /\ ~(read < count)
    /\ fast_total' = read
    /\ read_pc' = "return"
    /\ UNCHANGED <<count, req, req_count, req_i, read, re, buf, log, ret>>
    /\ unchangedPath

\* return read;
Return ==
    /\ read_pc = "return"
    /\ ret' = read
    /\ read_pc' = "done"
    /\ UNCHANGED <<count, req, req_count, req_i, read, re, buf, log, fast_total>>
    /\ unchangedPath

InitRead ==
    /\ PathIdle
    /\ ErrIdle
    /\ FdIdle
    /\ count \in 0..MaxCount
    /\ req = <<>>
    /\ req_count = 0
    /\ req_i = 0
    /\ read = 0
    /\ re = 0
    /\ buf = [k \in 1..count |-> "u"]
    /\ read_pc = "start"
    /\ log = <<>>
    /\ fast_total = 0
    /\ ret = 0

NextRead ==
    \/ ReadRequests
    \/ LoopEnd
    \/ SizeZero
    \/ Hole
    \/ NewReadPacket
    \/ GetConn
    \/ WriteSock
    \/ GetReadReply
    \/ PutConn
    \/ Fallback
    \/ SkipFallback
    \/ Return

SpecRead == InitRead /\ [][NextRead]_vars

LogIndices(op) == {k \in 1..Len(log) : log[k].op = op}
RoundTrips == Cardinality(LogIndices("get_read_reply"))
FallbackCalls == Cardinality(LogIndices("cfs_pread"))

\* the query reported descriptors that cover all count bytes, none a hole;
\* a descriptor covers its size > 0 bytes (a zero size ends the list,
\* client.h:713)
FullCoverNoHoles ==
    /\ req_count >= 0
    /\ \A k \in 1..Len(req) : req[k].partition_id # 0 /\ req[k].size # 0
    /\ SumSizes(req) = count

\* no packet, connection, write or reply failed and every reply was full
ExchangesAllExact ==
    \A k \in 1..Len(log) :
        /\ log[k].op = "new_read_packet" => log[k].val = 1
        /\ log[k].op \in {"get_conn", "write_sock"} => log[k].val >= 0
        /\ log[k].op = "get_read_reply" => log[k].val = Req(log[k].idx).size

\* C5: when the descriptors cover the whole range without holes and every
\* exchange succeeds with the descriptor's length, the call returns count,
\* makes one socket round trip per descriptor and never calls cfs_pread.
FullCoverServedByFastPath ==
    (read_pc = "done" /\ FullCoverNoHoles /\ ExchangesAllExact)
        => (ret = count /\ RoundTrips = req_count /\ FallbackCalls = 0)

TwoDescriptorsServedWitness ==
    /\ read_pc = "done"
    /\ count = 3
    /\ req = <<[partition_id |-> 1, size |-> 1], [partition_id |-> 1, size |-> 2]>>
    /\ ExchangesAllExact
    /\ RoundTrips = 2
    /\ ret = 3

\* the first socket exchange of the call returned fewer bytes than asked
FirstExchangeShort ==
    \E k \in LogIndices("get_read_reply") :
        /\ \A j \in LogIndices("get_read_reply") : k <= j
        /\ log[k].val >= 0
        /\ log[k].val < Req(log[k].idx).size

\* C6: a short first exchange leaves the fast-path total below count, the
\* fallback read runs, and the call returns the fallback's result alone.
ShortFirstExchangeReturnsFallback ==
    (read_pc = "done" /\ FirstExchangeShort)
        => /\ fast_total < count
           /\ FallbackCalls = 1
           /\ \A k \in LogIndices("cfs_pread") : ret = log[k].val

ShortThenFallbackWitness ==
    /\ read_pc = "done"
    /\ FirstExchangeShort
    /\ fast_total = 1
    /\ ret = 2

\* a step of the fast path failed: the extent query, packet construction,
\* connection acquisition, the socket write or the reply read
FastPathFailed ==
    \E k \in 1..Len(log) :
        \/ log[k].op = "cfs_read_requests" /\ log[k].val < 0
        \/ log[k].op = "new_read_packet" /\ log[k].val = 0
        \/ log[k].op = "get_conn" /\ log[k].val < 0
        \/ log[k].op = "write_sock" /\ log[k].val < 0
        \/ log[k].op = "get_read_reply" /\ log[k].val < 0

\* the returned value is negative only as the value cfs_pread returned
NegativeOnlyFromFallback ==
    (read_pc = "done" /\ ret < 0)
        => /\ FallbackCalls = 1
           /\ \A k \in LogIndices("cfs_pread") : log[k].val = ret

\* C16 as stated: a negative return value is the fallback's own, and every
\* failure of a fast-path step makes cfs_pread_sock call the fallback.
FastPathFailureAlwaysFallsBack ==
    /\ NegativeOnlyFromFallback
    /\ (read_pc = "done" /\ FastPathFailed) => FallbackCalls = 1

\* C16, amended: a negative return value is the fallback's own, and every
\* failure of a fast-path step in a read of count > 0 bytes makes
\* cfs_pread_sock call the fallback; with count = 0 the call returns 0.
FastPathFailureFallsBackOrReadsNothing ==
    /\ NegativeOnlyFromFallback
    /\ (read_pc = "done" /\ FastPathFailed)
          => IF count > 0 THEN FallbackCalls = 1
             ELSE FallbackCalls = 0 /\ ret = 0

ReplyFailedFallbackErrorWitness ==
    /\ read_pc = "done"
    /\ \E k \in LogIndices("get_read_reply") : log[k].val < 0 /\ log[k].idx = 1
    /\ fast_total = 1
    /\ FallbackCalls = 1
    /\ ret = -5

\* C21: cfs_pread is called at most once in a call, and once the comparison
\* with count is made it has been called exactly when the fast-path total is
\* below count; when it is not called the value returned is the fast-path
\* total, which equals count.
FallbackExactlyWhenShort ==
    /\ FallbackCalls <= 1
    /\ read_pc \in {"return", "done"} => (FallbackCalls = 1 <=> fast_total < count)
    /\ (read_pc = "done" /\ FallbackCalls = 0) => (ret = fast_total /\ ret = count)

HoleThenExchangeNoFallbackWitness ==
    /\ read_pc = "done"
    /\ count = 3
    /\ req = <<[partition_id |-> 0, size |-> 1], [partition_id |-> 1, size |-> 2]>>
    /\ FallbackCalls = 0
    /\ fast_total = 3
    /\ ret = 3

\* the log entries of operation op made for descriptor i
OpsFor(op, i) == {k \in LogIndices(op) : log[k].idx = i}

\* descriptor i's connection was acquired, and the call is past its exchange
ConnSettled(i) ==
    /\ \E k \in OpsFor("get_conn", i) : log[k].val >= 0
    /\ ~(req_i = i /\ read_pc \in {"write_sock", "get_read_reply", "put_conn"})

\* C22: a connection acquired from the pool is either returned with put_conn
\* or closed, never both and never neither; it is returned exactly when the
\* write and the reply read both succeeded; nothing is returned or closed
\* for a descriptor whose connection was not acquired.
ConnDisposedExactlyOnce ==
    \A i \in 0..(max_count - 1) :
        /\ ConnSettled(i)
              => /\ Cardinality(OpsFor("put_conn", i))
                      + Cardinality(OpsFor("close", i)) = 1
                 /\ Cardinality(OpsFor("put_conn", i)) = 1
                      <=> /\ \E k \in OpsFor("write_sock", i) : log[k].val >= 0
                          /\ \E k \in OpsFor("get_read_reply", i) : log[k].val >= 0
        /\ ~(\E k \in OpsFor("get_conn", i) : log[k].val >= 0)
              => OpsFor("put_conn", i) \cup OpsFor("close", i) = {}

ReturnedThenClosedWitness ==
    /\ read_pc = "done"
    /\ Cardinality(OpsFor("put_conn", 0)) = 1
    /\ OpsFor("close", 0) = {}
    /\ Cardinality(OpsFor("close", 1)) = 1
    /\ OpsFor("put_conn", 1) = {}
    /\ \E k \in OpsFor("get_read_reply", 1) : log[k].val < 0

\* the pool and socket operations of the fast path
NetOps == {"new_read_packet", "get_conn", "write_sock", "get_read_reply",
           "put_conn", "close"}

\* log entry k ends the loop: a failed step or a reply shorter than asked
StopsLoop(k) ==
    \/ log[k].op = "new_read_packet" /\ log[k].val = 0
    \/ log[k].op \in {"get_conn", "write_sock"} /\ log[k].val < 0
    \/ log[k].op = "get_read_reply" /\ log[k].val < Req(log[k].idx).size

\* C23: the extent query is the first call and is made once; pool and socket
\* operations are made in index order, once per descriptor, for at most
\* max_count descriptors; after a failed step or a short reply only that
\* descriptor's connection is disposed of; no operation is made for a
\* descriptor behind one of size zero; nothing follows the fallback.
InOrderStopAtFirstFailure ==
    /\ Cardinality(LogIndices("cfs_read_requests")) <= 1
    /\ \A k \in LogIndices("cfs_read_requests") : k = 1
    /\ \A k \in LogIndices("cfs_pread") : k = Len(log)
    /\ \A k \in 1..Len(log) :
          log[k].op \in NetOps
              => /\ log[k].idx < max_count
                 /\ log[k].idx < req_count
                 /\ \A i \in 0..log[k].idx : Req(i).size # 0
                 /\ \A j \in 1..(k - 1) :
                       log[j].op \in NetOps
                           => /\ log[j].idx <= log[k].idx
                              /\ log[j].op = log[k].op => log[j].idx < log[k].idx
                              /\ StopsLoop(j)
                                    => /\ log[k].idx = log[j].idx
                                       /\ log[k].op \in {"put_conn", "close"}

ShortReplyStopsLoopWitness ==
    /\ read_pc = "done"
    /\ req = <<[partition_id |-> 1, size |-> 2], [partition_id |-> 1, size |-> 1]>>
    /\ \E k \in OpsFor("get_read_reply", 0) : log[k].val = 1
    /\ \A k \in 1..Len(log) : log[k].op \in NetOps => log[k].idx = 0
    /\ FallbackCalls = 1

\* C7: a hole descriptor (partition id 0, size > 0) adds its size to the
\* running total, zero-fills that region of the buffer and nothing else,
\* makes no pool or socket call, and the loop goes on to the next descriptor.
HoleZeroFillsWithoutNetwork ==
    [][(/\ read_pc = "loop"
        /\ req_i < req_count
        /\ Req(req_i).size # 0
        /\ Req(req_i).partition_id = 0)
       => (/\ read' = read + Req(req_i).size
           /\ buf' = Fill(buf, read, Req(req_i).size, "z")
           /\ log' = log
           /\ req_i' = req_i + 1
           /\ read_pc' = "loop")]_vars

HoleFilledWitness ==
    /\ read_pc = "loop"
    /\ count = 3
    /\ req_count = 2
    /\ req_i = 1
    /\ Req(0) = [partition_id |-> 0, size |-> 2]
    /\ read = 2
    /\ buf = <<"z", "z", "u">>
    /\ Len(log) = 1
\* ------------------------------------------------------------------------
\* cfs_errno, cfs_errno_ssize_t (client.h:610-629)
\* ------------------------------------------------------------------------
\* a remote status is -E for a host errno E, or a non-negative result
Statuses == (-MaxErrno)..MaxStatus

\* cfs_errno without the else branch: errno is left as it was on success
cfs_errno_keeps_errno(r) ==
    IF r < 0 THEN [re |-> -1, errno |-> -r] ELSE [re |-> r, errno |-> errno]

\* the pair (returned value, errno after the call)
cfs_errno(r) ==
    IF r < 0 THEN [re |-> -1, errno |-> -r] ELSE [re |-> r, errno |-> 0]

cfs_errno_ssize_t(r) ==
    IF r < 0 THEN [re |-> -1, errno |-> -r] ELSE [re |-> r, errno |-> 0]

unchangedErr == UNCHANGED <<pathVars, readVars, fdVars, thVars>>

CallCfsErrno ==
    /\ \E s \in Statuses :
        /\ err_in' = s
        /\ err_ret' = cfs_errno(s).re
        /\ errno' = cfs_errno(s).errno
    /\ errno_before' = errno
    /\ err_fn' = "cfs_errno"
    /\ unchangedErr

CallCfsErrnoSsize ==
    /\ \E s \in Statuses :
        /\ err_in' = s
        /\ err_ret' = cfs_errno_ssize_t(s).re
        /\ errno' = cfs_errno_ssize_t(s).errno
    /\ errno_before' = errno
    /\ err_fn' = "cfs_errno_ssize_t"
    /\ unchangedErr

\* an unrelated libc call of the thread fails and sets errno
LibcFailure ==
    /\ \E e \in 1..MaxErrno : errno' = e
    /\ errno_before' = errno
    /\ err_fn' = "libc"
    /\ UNCHANGED <<err_in, err_ret>>
    /\ unchangedErr

InitErrno ==
    /\ PathIdle
    /\ ReadIdle
    /\ FdIdle
    /\ ErrIdle

NextErrno == CallCfsErrno \/ CallCfsErrnoSsize \/ LibcFailure

SpecErrno == InitErrno /\ [][NextErrno]_vars

\* C8: after cfs_errno or cfs_errno_ssize_t on status s, a negative s gives
\* -1 with errno = -s, any other s gives s with errno = 0, whatever errno was.
StatusTranslated ==
    err_fn \in {"cfs_errno", "cfs_errno_ssize_t"}
        => /\ err_in < 0 => (err_ret = -1 /\ errno = -err_in)
           /\ err_in >= 0 => (err_ret = err_in /\ errno = 0)

StaleErrnoClearedWitness ==
    /\ err_fn = "cfs_errno_ssize_t"
    /\ errno_before = 2
    /\ err_in = 3
    /\ err_ret = 3
    /\ errno = 0
\* ------------------------------------------------------------------------
\* Descriptor registry: fd_in_cfs, get_cfs_fd, dup_fd (client.h:664-697)
\* ------------------------------------------------------------------------
\* #define CFS_FD_MASK (1 << (sizeof(int)*8 - 2)), with a 32-bit int
CFS_FD_MASK == 1073741824

\* fd & CFS_FD_MASK is non-zero, for a 32-bit two's complement fd
HasMaskBit(fd) ==
    IF fd >= 0
    THEN (fd \div CFS_FD_MASK) % 2 = 1
    ELSE (((fd + CFS_FD_MASK) + CFS_FD_MASK) \div CFS_FD_MASK) % 2 = 1

\* fd & ~CFS_FD_MASK
ClearMaskBit(fd) == IF HasMaskBit(fd) THEN fd - CFS_FD_MASK ELSE fd

fd_in_cfs(fd) ==
    IF fd \in DOMAIN dup_fds THEN TRUE
    ELSE IF HasMaskBit(fd) THEN TRUE
    ELSE FALSE

\* get_cfs_fd without the CFS_FD_MASK branch
get_cfs_fd_alias_only(fd) ==
    IF fd \in DOMAIN dup_fds THEN dup_fds[fd]
    ELSE -1

\* get_cfs_fd testing CFS_FD_MASK before the alias map
get_cfs_fd_mask_first(fd) ==
    IF HasMaskBit(fd) THEN ClearMaskBit(fd)
    ELSE IF fd \in DOMAIN dup_fds THEN dup_fds[fd]
    ELSE -1

get_cfs_fd(fd) ==
    IF fd \in DOMAIN dup_fds THEN dup_fds[fd]
    ELSE IF HasMaskBit(fd) THEN ClearMaskBit(fd)
    ELSE -1

\* map m with key k set to v (std::map operator[] assignment, insert)
MapPut(m, k, v) == [x \in DOMAIN m \cup {k} |-> IF x = k THEN v ELSE m[x]]

\* map m without key k (std::map erase)
MapErase(m, k) == [x \in DOMAIN m \ {k} |-> m[x]]

unchangedFd == UNCHANGED <<pathVars, readVars, errVars, thVars>>

\* dup_fd without dup_ref++
dup_fd_without_ref(oldfd, newfd) ==
    IF oldfd \notin DOMAIN open_files
    THEN /\ dup_fd_ret' = -1
         /\ UNCHANGED <<open_files, dup_fds>>
    ELSE /\ open_files' = open_files
         /\ dup_fds' = MapPut(dup_fds, newfd, oldfd)
         /\ dup_fd_ret' = newfd

\* dup_fd recording the alias before the open_files lookup fails
dup_fd_partial_entry(oldfd, newfd) ==
    IF oldfd \notin DOMAIN open_files
    THEN /\ dup_fd_ret' = -1
         /\ dup_fds' = MapPut(dup_fds, newfd, oldfd)
         /\ UNCHANGED open_files
    ELSE /\ open_files' = [open_files EXCEPT ![oldfd].dup_ref = @ + 1]
         /\ dup_fds' = MapPut(dup_fds, newfd, oldfd)
         /\ dup_fd_ret' = newfd

dup_fd(oldfd, newfd) ==
    IF oldfd \notin DOMAIN open_files
    THEN /\ dup_fd_ret' = -1
         /\ UNCHANGED <<open_files, dup_fds>>
    ELSE /\ open_files' = [open_files EXCEPT ![oldfd].dup_ref = @ + 1]
         /\ dup_fds' = MapPut(dup_fds, newfd, oldfd)
         /\ dup_fd_ret' = newfd

\* handle ids the SDK hands out, and descriptor numbers the callers of
\* dup_fd pass for the new descriptor
Handles == 0..MaxHandle
NewFds == {1, 3, 4, CFS_FD_MASK + 1}

\* the dup/dup2/dup3 wrappers call dup_fd with the resolved handle id
DupFd ==
    /\ \E oldfd \in Handles, newfd \in NewFds :
        /\ oldfd \in DOMAIN open_files => open_files[oldfd].dup_ref < MaxDupRef
        /\ dup_fd(oldfd, newfd)
        /\ fd_call' = [op |-> "dup_fd", oldfd |-> oldfd, newfd |-> newfd]
    /\ UNCHANGED direct_live
    /\ unchangedFd

\* open: a new handle is recorded with one descriptor, handle id | CFS_FD_MASK
OpenFile ==
    /\ \E h \in Handles \ DOMAIN open_files :
        /\ open_files' = MapPut(open_files, h, [dup_ref |-> 1])
        /\ direct_live' = direct_live \cup {h}
    /\ fd_call' = NoCall
    /\ UNCHANGED <<dup_fds, dup_fd_ret>>
    /\ unchangedFd

\* dup_ref-- on handle h; the handle is torn down when it reaches zero
Unref(h) ==
    IF h \notin DOMAIN open_files THEN open_files
    ELSE IF open_files[h].dup_ref = 1 THEN MapErase(open_files, h)
    ELSE [open_files EXCEPT ![h].dup_ref = @ - 1]

\* the descriptors the application holds: aliases and original descriptors
LiveFds == DOMAIN dup_fds \cup {h + CFS_FD_MASK : h \in direct_live}

\* close of a descriptor the application holds: an alias entry is removed
\* (with or without a dup_ref decrement on its handle); otherwise dup_ref of
\* the handle is decremented
CloseFd ==
    /\ \E fd \in LiveFds :
        IF fd \in DOMAIN dup_fds
        THEN /\ dup_fds' = MapErase(dup_fds, fd)
             /\ \E dec \in BOOLEAN :
                  open_files' = IF dec THEN Unref(dup_fds[fd]) ELSE open_files
             /\ UNCHANGED direct_live
        ELSE /\ open_files' = Unref(get_cfs_fd(fd))
             /\ direct_live' = direct_live \ {get_cfs_fd(fd)}
             /\ UNCHANGED dup_fds
    /\ fd_call' = NoCall
    /\ UNCHANGED dup_fd_ret
    /\ unchangedFd

\* Spec: the descriptor registry under open, dup and close
Init ==
    /\ PathIdle
    /\ ReadIdle
    /\ ErrIdle
    /\ FdIdle

Next == OpenFile \/ DupFd \/ CloseFd

Spec == Init /\ [][Next]_vars

\* the descriptors the application holds that resolve to handle h
LiveAliases(h) == {fd \in LiveFds : get_cfs_fd(fd) = h}

\* C9: an alias keeps resolving to an open handle after the original
\* descriptor is closed, and dup_ref of an open handle is never below the
\* number of live descriptors of that handle.
AliasSurvivesCloseOfOriginal ==
    /\ \A fd \in DOMAIN dup_fds : get_cfs_fd(fd) \in DOMAIN open_files
    /\ \A h \in DOMAIN open_files :
          open_files[h].dup_ref >= Cardinality(LiveAliases(h))

OriginalClosedAliasOpenWitness ==
    /\ 3 \in DOMAIN dup_fds
    /\ get_cfs_fd(3) = 0
    /\ 0 \notin direct_live
    /\ 0 \in DOMAIN open_files
    /\ open_files[0].dup_ref = 1

\* descriptor values the registry is queried with
FdSamples == {-100, -1, 0, 3, 4, CFS_FD_MASK - 1, CFS_FD_MASK, CFS_FD_MASK + 1}

\* C10: fd_in_cfs is true exactly for descriptors with an alias entry or
\* with bit 30 set, and exactly when get_cfs_fd does not return -1.
FdInCfsIffResolved ==
    \A fd \in FdSamples :
        /\ fd_in_cfs(fd) <=> (fd \in DOMAIN dup_fds \/ HasMaskBit(fd))
        /\ fd_in_cfs(fd) <=> get_cfs_fd(fd) # -1

AliasAndPlainWitness ==
    /\ DOMAIN dup_fds = {3}
    /\ fd_in_cfs(3) /\ get_cfs_fd(3) = 0
    /\ ~fd_in_cfs(4) /\ get_cfs_fd(4) = -1
    /\ fd_in_cfs(CFS_FD_MASK + 1) /\ get_cfs_fd(CFS_FD_MASK + 1) = 1

\* the caller-visible descriptor of handle id h: h | CFS_FD_MASK, for
\* 0 <= h < CFS_FD_MASK
DirectFd(h) == h + CFS_FD_MASK

\* handle ids at both ends of the range 0 .. CFS_FD_MASK - 1
HandleSamples == {0, 1, CFS_FD_MASK - 2, CFS_FD_MASK - 1}

\* C11: for every handle id h below CFS_FD_MASK the descriptor
\* h | CFS_FD_MASK is remote for fd_in_cfs, get_cfs_fd gives back exactly h,
\* and two distinct handle ids have distinct descriptors.
DirectDescriptorRoundTrip ==
    \A h \in HandleSamples :
        /\ fd_in_cfs(DirectFd(h))
        /\ get_cfs_fd(DirectFd(h)) = h
        /\ \A g \in HandleSamples : g # h => DirectFd(g) # DirectFd(h)

\* the descriptors a duplicated descriptor can come from
SourceFds == {DirectFd(h) : h \in Handles} \cup NewFds

\* C12: when dup_fd registers B as an alias of the handle that descriptor A
\* resolves to, get_cfs_fd(B) is that handle id and get_cfs_fd(A) stays equal
\* to it; the alias entry wins over bit 30 of B, the entry's value is not
\* looked up again, and the handle id does not carry bit 30.
AliasResolvesToOriginalHandle ==
    [][\A h \in Handles, B \in NewFds :
          (fd_call' = [op |-> "dup_fd", oldfd |-> h, newfd |-> B]
              /\ dup_fd_ret' = B)
          => /\ get_cfs_fd(B)' = h
             /\ ~HasMaskBit(get_cfs_fd(B)')
             /\ \A A \in SourceFds :
                   get_cfs_fd(A) = h => get_cfs_fd(A)' = get_cfs_fd(B)']_vars

AliasOfAliasOneStepWitness ==
    /\ fd_call = [op |-> "dup_fd", oldfd |-> 1, newfd |-> 3]
    /\ dup_fd_ret = 3
    /\ 1 \in DOMAIN dup_fds /\ dup_fds[1] = 0
    /\ get_cfs_fd(3) = 1
    /\ CFS_FD_MASK + 1 \in DOMAIN dup_fds
    /\ get_cfs_fd(CFS_FD_MASK + 1) = 0

\* C13: dup_fd(oldfd, newfd) returns -1 and changes neither dup_fds nor
\* open_files when oldfd is not in open_files; otherwise it returns newfd,
\* sets dup_fds[newfd] = oldfd and adds one to dup_ref of oldfd only.
DupFdAllOrNothing ==
    [][\A oldfd \in Handles, newfd \in NewFds :
          fd_call' = [op |-> "dup_fd", oldfd |-> oldfd, newfd |-> newfd]
          => IF oldfd \notin DOMAIN open_files
             THEN /\ dup_fd_ret' = -1
                  /\ dup_fds' = dup_fds
                  /\ open_files' = open_files
             ELSE /\ dup_fd_ret' = newfd
                  /\ DOMAIN dup_fds' = DOMAIN dup_fds \cup {newfd}
                  /\ dup_fds'[newfd] = oldfd
                  /\ \A fd \in DOMAIN dup_fds \ {newfd} : dup_fds'[fd] = dup_fds[fd]
                  /\ DOMAIN open_files' = DOMAIN open_files
                  /\ open_files'[oldfd].dup_ref = open_files[oldfd].dup_ref + 1
                  /\ \A h \in DOMAIN open_files \ {oldfd} :
                        open_files'[h] = open_files[h]]_vars

DupFdFailedWitness ==
    /\ fd_call = [op |-> "dup_fd", oldfd |-> 1, newfd |-> 4]
    /\ dup_fd_ret = -1
    /\ DOMAIN open_files = {0}
    /\ open_files[0].dup_ref = 2
    /\ DOMAIN dup_fds = {3}

\* C14: no descriptor is both in the alias map and a direct remote
\* descriptor: no key of dup_fds has bit 30 set.
AliasNeverHasMaskBit ==
    \A fd \in DOMAIN dup_fds : ~HasMaskBit(fd)

\* SpecDup: the registry under open and dup_fd only, no close
NextDup == OpenFile \/ DupFd

SpecDup == Init /\ [][NextDup]_vars

\* the alias-map entries pointing at handle h
AliasEntries(h) == {fd \in DOMAIN dup_fds : dup_fds[fd] = h}

\* C18: with opens and successful dup_fd calls only (a handle is opened with
\* dup_ref 1), dup_ref - 1 equals the number of alias entries pointing at the
\* handle.
DupRefGrowthCountsAliases ==
    \A h \in DOMAIN open_files :
        open_files[h].dup_ref - 1 = Cardinality(AliasEntries(h))

\* ------------------------------------------------------------------------
\* SpecThreads: threads running dup_fd, fd_in_cfs and get_cfs_fd
\* concurrently (client.h:664-697), one statement per step
\* ------------------------------------------------------------------------
\* descriptor numbers the threads pass
ThreadNewFds == {3, 4}
ThreadLookupFds == {3, CFS_FD_MASK}

unchangedThreads ==
    UNCHANGED <<pathVars, readVars, errVars, direct_live, dup_fd_ret, fd_call>>

\* thread t enters dup_fd(oldfd, newfd)
CallDupFd(t) ==
    /\ th[t].pc = "idle"
    /\ \E oldfd \in Handles, newfd \in ThreadNewFds :
        th' = [th EXCEPT ![t] = [IdleThread EXCEPT !.pc = "rdlock",
                                                   !.fn = "dup_fd",
                                                   !.oldfd = oldfd,
                                                   !.newfd = newfd]]
    /\ UNCHANGED <<open_files, dup_fds, lock_readers>>
    /\ unchangedThreads

\* pthread_rwlock_rdlock(&g_client_info.open_files_lock): a read lock is
\* granted while other threads hold read locks
RdLock(t) ==
    /\ th[t].pc = "rdlock"
    /\ lock_readers' = lock_readers \cup {t}
    /\ th' = [th EXCEPT ![t].pc = "find"]
    /\ UNCHANGED <<open_files, dup_fds>>
    /\ unchangedThreads

\* auto it = open_files.find(oldfd); if (it == open_files.end())
FindOpenFile(t) ==
    /\ th[t].pc = "find"
    /\ th' = [th EXCEPT ![t].pc = IF th[t].oldfd \in DOMAIN open_files
                                  THEN "load" ELSE "unlock_fail"]
    /\ UNCHANGED <<open_files, dup_fds, lock_readers>>
    /\ unchangedThreads

\* pthread_rwlock_unlock(...); return -1;
UnlockFail(t) ==
    /\ th[t].pc = "unlock_fail"
    /\ lock_readers' = lock_readers \ {t}
    /\ th' = [th EXCEPT ![t].pc = "done", ![t].ret = -1]
    /\ UNCHANGED <<open_files, dup_fds>>
    /\ unchangedThreads

\* it->second->dup_ref++, the read of dup_ref
LoadDupRef(t) ==
    /\ th[t].pc = "load"
    /\ th' = [th EXCEPT ![t].pc = "store",
                        ![t].dup_ref = open_files[th[t].oldfd].dup_ref]
    /\ UNCHANGED <<open_files, dup_fds, lock_readers>>
    /\ unchangedThreads

\* it->second->dup_ref++, the write of the value read plus one
StoreDupRef(t) ==
    /\ th[t].pc = "store"
    /\ open_files' = [open_files EXCEPT ![th[t].oldfd].dup_ref = th[t].dup_ref + 1]
    /\ th' = [th EXCEPT ![t].pc = "unlock"]
    /\ UNCHANGED <<dup_fds, lock_readers>>
    /\ unchangedThreads

\* pthread_rwlock_unlock(&g_client_info.open_files_lock);
Unlock(t) ==
    /\ th[t].pc = "unlock"
    /\ lock_readers' = lock_readers \ {t}
    /\ th' = [th EXCEPT ![t].pc = "insert"]
    /\ UNCHANGED <<open_files, dup_fds>>
    /\ unchangedThreads

\* g_client_info.dup_fds[newfd] = oldfd; the thread starts to modify the map
InsertBegin(t) ==
    /\ th[t].pc = "insert"
    /\ th' = [th EXCEPT ![t].pc = "inserting"]
    /\ UNCHANGED <<open_files, dup_fds, lock_readers>>
    /\ unchangedThreads

\* another thread is inside the alias map
OtherInMap(t) ==
    \E u \in Threads \ {t} : th[u].pc \in {"inserting", "finding"}

\* g_client_info.dup_fds[newfd] = oldfd; return newfd; the modification is
\* complete. When it overlapped another thread's access of the map the entry
\* may also be missing.
InsertEnd(t) ==
    /\ th[t].pc = "inserting"
    /\ \/ dup_fds' = MapPut(dup_fds, th[t].newfd, th[t].oldfd)
       \/ OtherInMap(t) /\ dup_fds' = dup_fds
    /\ th' = [th EXCEPT ![t].pc = "done", ![t].ret = th[t].newfd]
    /\ UNCHANGED <<open_files, lock_readers>>
    /\ unchangedThreads

\* thread t enters fd_in_cfs(fd) or get_cfs_fd(fd): dup_fds.find(fd) starts
CallLookup(t) ==
    /\ th[t].pc = "idle"
    /\ \E fn \in {"fd_in_cfs", "get_cfs_fd"}, fd \in ThreadLookupFds :
        th' = [th EXCEPT ![t] = [IdleThread EXCEPT !.pc = "finding",
                                                   !.fn = fn,
                                                   !.fd = fd]]
    /\ UNCHANGED <<open_files, dup_fds, lock_readers>>
    /\ unchangedThreads

\* the lookup returns (fd_in_cfs's bool as 1 or 0). When it overlapped an
\* insertion the find may also miss an entry of the map.
LookupEnd(t) ==
    /\ th[t].pc = "finding"
    /\ \/ th' = [th EXCEPT ![t].pc = "done",
                           ![t].ret = IF th[t].fn = "get_cfs_fd"
                                      THEN get_cfs_fd(th[t].fd)
                                      ELSE IF fd_in_cfs(th[t].fd) THEN 1 ELSE 0]
       \/ /\ \E u \in Threads \ {t} : th[u].pc = "inserting"
          /\ ~HasMaskBit(th[t].fd)
          /\ th' = [th EXCEPT ![t].pc = "done",
                              ![t].ret = IF th[t].fn = "get_cfs_fd"
                                         THEN -1 ELSE 0]
    /\ UNCHANGED <<open_files, dup_fds, lock_readers>>
    /\ unchangedThreads

\* handle 0 is open with its original descriptor; no alias yet
InitThreads ==
    /\ PathIdle
    /\ ReadIdle
    /\ ErrIdle
    /\ open_files = (0 :> [dup_ref |-> 1])
    /\ dup_fds = <<>>
    /\ direct_live = {0}
    /\ dup_fd_ret = 0
    /\ fd_call = NoCall
    /\ ThreadsIdle

NextThreads ==
    \E t \in Threads :
        \/ CallDupFd(t)
        \/ RdLock(t)
        \/ FindOpenFile(t)
        \/ UnlockFail(t)
        \/ LoadDupRef(t)
        \/ StoreDupRef(t)
        \/ Unlock(t)
        \/ InsertBegin(t)
        \/ InsertEnd(t)
        \/ CallLookup(t)
        \/ LookupEnd(t)

SpecThreads == InitThreads /\ [][NextThreads]_vars

\* the threads whose dup_fd call on handle h has returned newfd
DupFdSucceeded(h) ==
    {t \in Threads : /\ th[t].pc = "done"
                     /\ th[t].fn = "dup_fd"
                     /\ th[t].oldfd = h
                     /\ th[t].ret # -1}

\* C19: when all threads have returned, dup_ref of the handle is higher than
\* at the start by the number of dup_fd calls on it that succeeded.
NoLostDupRefUpdate ==
    (\A t \in Threads : th[t].pc = "done")
        => open_files[0].dup_ref = 1 + Cardinality(DupFdSucceeded(0))

\* C20: while a thread is inserting into the alias map no other thread is
\* inside a lookup or an insertion on it.
AliasMapWritesExcluded ==
    \A t \in Threads :
        th[t].pc = "inserting"
            => \A u \in Threads \ {t} : th[u].pc \notin {"inserting", "finding"}

\* negative descriptor values: an error return, AT_FDCWD, the lowest int
\* with bit 30 set and the one below it
NegativeFdSamples == {-1, -100, -CFS_FD_MASK, -CFS_FD_MASK - 1}

\* C27: a negative descriptor without an alias entry is not remote for
\* fd_in_cfs and get_cfs_fd returns -1 for it.
NegativeFdNeverRemote ==
    \A fd \in NegativeFdSamples :
        fd \notin DOMAIN dup_fds => (~fd_in_cfs(fd) /\ get_cfs_fd(fd) = -1)

\* ------------------------------------------------------------------------
\* SpecTok: threads running the ignore-list test of get_cfs_path
\* concurrently (client.h:559-607), one strtok call per step
\* ------------------------------------------------------------------------
\* the paths the threads classify and the ignore lists of the process
TokPaths == {<<"/", "a">>, <<"/", "a", "/", "a">>, <<"/", "a", "/", "a", "a">>}
TokIgnoreLists == {<<"a">>, <<"a", ",", "a", "a">>}

unchangedTok ==
    /\ UNCHANGED <<pathname, mount_point, ignore_path, cwd, in_cfs, path_pc,
                   clean_out, clean_again, cfs_path, alloc_fail>>
    /\ UNCHANGED <<readVars, errVars, fdVars, thVars>>

\* one call of strtok scanning string s from index pos: the token found
\* (NULL when only delimiters are left) and the position saved for the next
\* call
StrtokStep(s, pos) ==
    LET b == SkipDelims(s, pos)
        e == TokenEnd(s, b)
    IN  IF b >= Len(s) THEN [token |-> NULL, pos |-> Len(s)]
        ELSE [token |-> SubSeq(s, b + 1, e),
              pos |-> IF e < Len(s) THEN e + 1 ELSE e]

\* the copy of the ignore list made by thread b has been freed
Freed(b) == b \in Threads /\ tok[b].pc = "done"

\* get_clean_path, strdup of the ignore list, the prefix test and the test
\* of the list's length (client.h:545-569)
TokEnter(t) ==
    /\ tok[t].pc = "idle"
    /\ \E p \in TokPaths :
        LET real_path == get_clean_path(p)
            len == Len(mount_point)
        IN  tok' = [tok EXCEPT ![t] =
                [IdleTok EXCEPT
                    !.pathname = p,
                    !.real_path = real_path,
                    !.is_cfs = /\ strncmp_eq(real_path, mount_point, len)
                               /\ Len(ignore_path) = 0
                               /\ At(real_path, len) \in {NUL, "/"},
                    !.pc = IF strncmp_eq(real_path, mount_point, len)
                              /\ Len(ignore_path) > 0
                           THEN "strtok_first" ELSE "finish"]]
    /\ UNCHANGED strtok_save
    /\ unchangedTok

\* char *token = strtok(ignore_path, ",");
StrtokFirst(t) ==
    /\ tok[t].pc = "strtok_first"
    /\ LET step == StrtokStep(ignore_path, 0)
       IN  /\ tok' = [tok EXCEPT ![t].token = step.token,
                                 ![t].token_buf = t,
                                 ![t].pc = "test"]
           /\ strtok_save' = [buf |-> t, pos |-> step.pos]
    /\ unchangedTok

\* while(token != NULL) { if(match) { is_cfs = false; break; } is_cfs = true;
\* the token lies in the copy strtok was scanning; when that copy has been
\* freed its bytes are indeterminate
TokenTest(t) ==
    /\ tok[t].pc = "test"
    /\ IF tok[t].token = NULL
       THEN tok' = [tok EXCEPT ![t].pc = "finish"]
       ELSE \E match \in BOOLEAN :
              /\ \/ match = TokenMatches(tok[t].real_path, Len(mount_point),
                                         tok[t].token)
                 \/ Freed(tok[t].token_buf)
              /\ tok' = [tok EXCEPT ![t].is_cfs = ~match,
                                    ![t].pc = IF match THEN "finish"
                                              ELSE "strtok_next"]
    /\ UNCHANGED strtok_save
    /\ unchangedTok

\* token = strtok(NULL, ","); the scan goes on from the saved position,
\* whichever thread's call saved it; in a freed copy the scan may also find
\* the end of the string
StrtokNext(t) ==
    /\ tok[t].pc = "strtok_next"
    /\ \E step \in {StrtokStep(ignore_path, strtok_save.pos),
                    [token |-> NULL, pos |-> strtok_save.pos]} :
        /\ \/ step = StrtokStep(ignore_path, strtok_save.pos)
           \/ Freed(strtok_save.buf)
        /\ tok' = [tok EXCEPT ![t].token = step.token,
                              ![t].token_buf = strtok_save.buf,
                              ![t].pc = "test"]
        /\ strtok_save' = [strtok_save EXCEPT !.pos = step.pos]
    /\ unchangedTok

\* free(ignore_path); if (!is_cfs) return NULL; strip the mount point part
TokFinish(t) ==
    /\ tok[t].pc = "finish"
    /\ tok' = [tok EXCEPT ![t].ret = IF ~tok[t].is_cfs THEN NULL
                                     ELSE StripMount(tok[t].real_path),
                          ![t].pc = "done"]
    /\ UNCHANGED strtok_save
    /\ unchangedTok

InitTok ==
    /\ pathname = <<>>
    /\ mount_point \in MountPoints
    /\ ignore_path \in TokIgnoreLists
    /\ cwd = <<"/">>
    /\ in_cfs = FALSE
    /\ path_pc = "idle"
    /\ clean_out = NULL
    /\ clean_again = NULL
    /\ cfs_path = NULL
    /\ alloc_fail = "none"
    /\ TokIdle
    /\ ReadIdle
    /\ ErrIdle
    /\ FdIdle

NextTok ==
    \E t \in Threads :
        \/ TokEnter(t)
        \/ StrtokFirst(t)
        \/ TokenTest(t)
        \/ StrtokNext(t)
        \/ TokFinish(t)

SpecTok == InitTok /\ [][NextTok]_vars

\* C26: a call of get_cfs_path that ran among other threads' calls returns
\* what get_cfs_path returns for the same path when it runs alone.
ClassifyUndisturbedByThreads ==
    \A t \in Threads :
        tok[t].pc = "done" => tok[t].ret = get_cfs_path(tok[t].pathname)
====
